---------------------------- MODULE Spec2Model ----------------------------
(***************************************************************************)
(* A model of the text-intelligence server (server.py): the request        *)
(* dispatcher call_tool and its two tools, extract_outcomes and            *)
(* trim_context.  Texts are sequences of one-character strings; the        *)
(* regular expressions of the source are written as syntax trees and run   *)
(* by a backtracking matcher with Python's priority order (leftmost match, *)
(* greedy quantifiers, alternatives tried left to right).                  *)
(***************************************************************************)
EXTENDS Integers, Sequences, FiniteSets, TLC

VARIABLES request, response

vars == <<request, response>>

(***************************************************************************)
(* Characters and the str methods the handlers use.                        *)
(***************************************************************************)

\* a string literal as a sequence of one-character strings
Str(s) == [i \in 1..Len(s) |-> SubSeq(s, i, i)]

UpperChars == Str("ABCDEFGHIJKLMNOPQRSTUVWXYZ")

LowerChars == Str("abcdefghijklmnopqrstuvwxyz")

\* the characters Python's str.strip / str.split / regex \s treat as space
Whitespace == {" ", "\t", "\n", "\r"}

\* the characters the mis-encoded bullet of the question clean-up consists of
\* (bytes C3 A2, E2 82 AC, C2 A2 of the source line), and the real bullet
A_CIRC == "U+00E2"

EURO == "U+20AC"

CENT == "U+00A2"

BULLET == "U+2022"

LowerChar(c) ==
    IF \E k \in 1..26 : UpperChars[k] = c
    THEN LowerChars[CHOOSE k \in 1..26 : UpperChars[k] = c]
    ELSE c

\* str.lower()
Lower(s) == [i \in 1..Len(s) |-> LowerChar(s[i])]

RECURSIVE LStrip(_)
LStrip(s) ==
    IF s # <<>> /\ Head(s) \in Whitespace THEN LStrip(Tail(s)) ELSE s

RECURSIVE RStrip(_)
RStrip(s) ==
    IF s # <<>> /\ s[Len(s)] \in Whitespace
    THEN RStrip(SubSeq(s, 1, Len(s) - 1))
    ELSE s

\* str.strip()
Strip(s) == RStrip(LStrip(s))

\* str.split() with no separator: the maximal runs of non-space characters
RECURSIVE SplitFrom(_, _, _)
SplitFrom(s, i, cur) ==
    IF i > Len(s)
    THEN IF cur = <<>> THEN <<>> ELSE <<cur>>
    ELSE IF s[i] \in Whitespace
         THEN IF cur = <<>>
              THEN SplitFrom(s, i + 1, <<>>)
              ELSE <<cur>> \o SplitFrom(s, i + 1, <<>>)
         ELSE SplitFrom(s, i + 1, Append(cur, s[i]))

Split(s) == SplitFrom(s, 1, <<>>)

\* set(list)
ToSet(xs) == {xs[i] : i \in 1..Len(xs)}

\* x in list
Contains(xs, x) == \E i \in 1..Len(xs) : xs[i] = x

(***************************************************************************)
(* Regular expressions: syntax trees and the backtracking matcher.         *)
(***************************************************************************)

Lit(s) == [op |-> "lit", s |-> Str(s)]

CharSet(cs) == [op |-> "set", neg |-> FALSE, cs |-> cs]

NotCharSet(cs) == [op |-> "set", neg |-> TRUE, cs |-> cs]

Cat(xs) == [op |-> "seq", xs |-> xs]

Alt(xs) == [op |-> "alt", xs |-> xs]

Opt(x) == [op |-> "opt", x |-> x]

Star(x) == [op |-> "star", x |-> x]

Plus(x) == [op |-> "plus", x |-> x]

\* ^
Caret == [op |-> "caret"]

\* (?<=[...])
LookBehind(cs) == [op |-> "lookbehind", cs |-> cs]

\* \s
Space == CharSet(Whitespace)

\* an alternation of literals, (?:a|b|c)
Words(ws) == Alt([k \in 1..Len(ws) |-> Lit(ws[k])])

NoFlags == [ignorecase |-> FALSE, multiline |-> FALSE]

\* re.IGNORECASE | re.MULTILINE
IM == [ignorecase |-> TRUE, multiline |-> TRUE]

SameChar(c, d, f) == IF f.ignorecase THEN LowerChar(c) = LowerChar(d) ELSE c = d

InSet(c, cs, f) ==
    IF f.ignorecase THEN \E d \in cs : LowerChar(c) = LowerChar(d) ELSE c \in cs

\* The positions at which node r can end when it starts after the first i
\* characters of t, in the order in which the backtracking matcher tries them.
RECURSIVE Ends(_, _, _, _)
RECURSIVE EndsAll(_, _, _, _, _)
RECURSIVE EndsCat(_, _, _, _, _)
RECURSIVE EndsAlt(_, _, _, _, _)
RECURSIVE EndsStar(_, _, _, _)
RECURSIVE EndsStarAll(_, _, _, _, _, _)

Ends(r, t, i, f) ==
    CASE r.op = "lit" ->
           IF /\ i + Len(r.s) <= Len(t)
              /\ \A k \in 1..Len(r.s) : SameChar(t[i + k], r.s[k], f)
           THEN <<i + Len(r.s)>> ELSE <<>>
      [] r.op = "set" ->
           IF i < Len(t) /\ (InSet(t[i + 1], r.cs, f) # r.neg)
           THEN <<i + 1>> ELSE <<>>
      [] r.op = "seq" -> EndsCat(r.xs, 1, t, <<i>>, f)
      [] r.op = "alt" -> EndsAlt(r.xs, 1, t, i, f)
      [] r.op = "opt" -> Ends(r.x, t, i, f) \o <<i>>
      [] r.op = "star" -> EndsStar(r.x, t, i, f)
      [] r.op = "plus" -> EndsCat(<<r.x, Star(r.x)>>, 1, t, <<i>>, f)
      [] r.op = "caret" ->
           IF i = 0 \/ (f.multiline /\ t[i] = "\n") THEN <<i>> ELSE <<>>
      [] r.op = "lookbehind" ->
           IF i >= 1 /\ t[i] \in r.cs THEN <<i>> ELSE <<>>

\* r tried from each of the positions starts[k..], in order
EndsAll(r, t, starts, k, f) ==
    IF k > Len(starts) THEN <<>>
    ELSE Ends(r, t, starts[k], f) \o EndsAll(r, t, starts, k + 1, f)

EndsCat(xs, k, t, starts, f) ==
    IF k > Len(xs) THEN starts
    ELSE EndsCat(xs, k + 1, t, EndsAll(xs[k], t, starts, 1, f), f)

EndsAlt(xs, k, t, i, f) ==
    IF k > Len(xs) THEN <<>>
    ELSE Ends(xs[k], t, i, f) \o EndsAlt(xs, k + 1, t, i, f)

\* greedy: one more iteration first, stopping here last
EndsStar(x, t, i, f) == EndsStarAll(x, t, Ends(x, t, i, f), 1, i, f) \o <<i>>

EndsStarAll(x, t, es, k, i, f) ==
    IF k > Len(es) THEN <<>>
    ELSE (IF es[k] > i THEN EndsStar(x, t, es[k], f) ELSE <<>>)
         \o EndsStarAll(x, t, es, k + 1, i, f)

\* re.match: the end of the match of r at the start of t, or -1
Match(r, t, f) ==
    LET es == Ends(r, t, 0, f) IN IF es = <<>> THEN -1 ELSE es[1]

\* re.finditer: the non-overlapping matches of r in t, left to right, each as
\* <<start, end>> (positions are counts of characters before the point)
RECURSIVE FindIter(_, _, _, _)
FindIter(r, t, pos, f) ==
    IF pos > Len(t) THEN <<>>
    ELSE LET es == Ends(r, t, pos, f) IN
         IF es = <<>> THEN FindIter(r, t, pos + 1, f)
         ELSE IF es[1] = pos
              THEN <<<<pos, pos>>>> \o FindIter(r, t, pos + 1, f)
              ELSE <<<<pos, es[1]>>>> \o FindIter(r, t, es[1], f)

\* match.group(0)
Group0(t, m) == SubSeq(t, m[1] + 1, m[2])


(***************************************************************************)
(* Argument dictionaries.  A value is a record tagged with its Python type; *)
(* a key that is not in the dictionary has the value Absent.               *)
(***************************************************************************)

Absent == [t |-> "absent"]

None == [t |-> "none"]

StrVal(s) == [t |-> "str", s |-> s]

IntVal(n) == [t |-> "int", n |-> n]

\* a float, given in tenths
FloatVal(m) == [t |-> "float", tenths |-> m]

\* arguments.get(key, default)
Get(arguments, key, default) ==
    IF arguments[key] = Absent THEN default ELSE arguments[key]

\* the truth value of an argument: None and "" are false
Truthy(v) ==
    CASE v.t = "none" -> FALSE
      [] v.t = "str" -> v.s # <<>>
      [] v.t = "int" -> v.n # 0
      [] v.t = "float" -> v.tenths # 0

Digits == Str("0123456789")

IsDigit(c) == \E k \in 1..10 : Digits[k] = c

DigitValue(c) == (CHOOSE k \in 1..10 : Digits[k] = c) - 1

RECURSIVE DecimalValue(_)
DecimalValue(ds) ==
    IF ds = <<>> THEN 0
    ELSE 10 * DecimalValue(SubSeq(ds, 1, Len(ds) - 1)) + DigitValue(ds[Len(ds)])

\* int() that falls back to the default when the value cannot be read
ToInt_default(v) ==
    CASE v.t = "int" -> [ok |-> TRUE, n |-> v.n]
      [] v.t = "float" ->
           [ok |-> TRUE,
            n |-> IF v.tenths >= 0 THEN v.tenths \div 10
                  ELSE -((-v.tenths) \div 10)]
      [] v.t = "str" ->
           LET s == Strip(v.s)
               signed == s # <<>> /\ s[1] \in {"+", "-"}
               ds == IF signed THEN Tail(s) ELSE s
           IN  IF ds # <<>> /\ \A k \in 1..Len(ds) : IsDigit(ds[k])
               THEN [ok |-> TRUE,
                     n |-> IF signed /\ s[1] = "-" THEN -DecimalValue(ds)
                           ELSE DecimalValue(ds)]
               ELSE [ok |-> TRUE, n |-> 5]
      [] v.t = "none" -> [ok |-> TRUE, n |-> 5]

\* int(v): [ok |-> TRUE, n |-> the integer] or [ok |-> FALSE, error |-> ...].
\* A string is stripped and read as an optionally signed run of digits; a
\* float is truncated toward zero; None is a TypeError.
ToInt(v) ==
    CASE v.t = "int" -> [ok |-> TRUE, n |-> v.n]
      [] v.t = "float" ->
           [ok |-> TRUE,
            n |-> IF v.tenths >= 0 THEN v.tenths \div 10
                  ELSE -((-v.tenths) \div 10)]
      [] v.t = "str" ->
           LET s == Strip(v.s)
               signed == s # <<>> /\ s[1] \in {"+", "-"}
               ds == IF signed THEN Tail(s) ELSE s
           IN  IF ds # <<>> /\ \A k \in 1..Len(ds) : IsDigit(ds[k])
               THEN [ok |-> TRUE,
                     n |-> IF signed /\ s[1] = "-" THEN -DecimalValue(ds)
                           ELSE DecimalValue(ds)]
               ELSE [ok |-> FALSE, error |-> "ValueError"]
      [] v.t = "none" -> [ok |-> FALSE, error |-> "TypeError"]

\* list[:k + 1]: a slice that is one too long
SliceTo_inclusive(xs, k) ==
    IF k + 1 >= 0 THEN SubSeq(xs, 1, IF k + 1 < Len(xs) THEN k + 1 ELSE Len(xs))
    ELSE SubSeq(xs, 1, Len(xs) + k + 1)

\* list[:k]
SliceTo(xs, k) ==
    IF k >= 0 THEN SubSeq(xs, 1, IF k < Len(xs) THEN k ELSE Len(xs))
    ELSE SubSeq(xs, 1, Len(xs) + k)

(***************************************************************************)
(* trim_context and its helpers.                                           *)
(***************************************************************************)

Terminators == {".", "!", "?"}

\* re.split(pattern, text): the pieces of t between the matches ms[k..]
RECURSIVE Pieces(_, _, _, _)
Pieces(t, ms, k, from) ==
    IF k > Len(ms) THEN <<SubSeq(t, from + 1, Len(t))>>
    ELSE <<SubSeq(t, from + 1, ms[k][1])>> \o Pieces(t, ms, k + 1, ms[k][2])

RECURSIVE StripNonEmpty(_)
StripNonEmpty(xs) ==
    IF xs = <<>> THEN <<>>
    ELSE IF Strip(Head(xs)) # <<>>
         THEN <<Strip(Head(xs))>> \o StripNonEmpty(Tail(xs))
         ELSE StripNonEmpty(Tail(xs))

split_into_sentences(text) ==
    LET pattern == Cat(<<LookBehind(Terminators), Plus(Space)>>)
        sentences == Pieces(text, FindIter(pattern, text, 0, NoFlags), 1, 0)
    IN  StripNonEmpty(sentences)

filler_patterns ==
    << Cat(<<Caret, Words(<<"hi", "hello", "hey", "dear", "greetings">>)>>),
       Cat(<<Caret, Words(<<"thanks", "thank you", "cheers">>)>>),
       Cat(<<Caret, Words(<<"best", "regards", "sincerely">>)>>),
       Cat(<<Caret, Words(<<"hope this helps", "let me know">>)>>),
       Cat(<<Caret, Words(<<"i think", "i feel", "i believe",
                            "in my opinion">>)>>) >>

is_filler_sentence(sentence) ==
    LET sentence_lower == Strip(Lower(sentence))
    IN  \E k \in 1..Len(filler_patterns) :
            Match(filler_patterns[k], sentence_lower, NoFlags) # -1

\* the overlap counted without lower-casing either side
calculate_relevance_score_cased(chunk, goal) ==
    LET goal_words == ToSet(Split(goal))
        chunk_words == ToSet(Split(chunk))
        overlap == Cardinality(goal_words \cap chunk_words)
    IN  IF goal_words # {} THEN <<overlap, Cardinality(goal_words)>>
        ELSE <<0, 1>>

\* A score is the fraction <<numerator, denominator>>; 0.0 is <<0, 1>>.
calculate_relevance_score(chunk, goal) ==
    LET goal_words == ToSet(Split(Lower(goal)))
        chunk_words == ToSet(Split(Lower(chunk)))
        overlap == Cardinality(goal_words \cap chunk_words)
    IN  IF goal_words # {} THEN <<overlap, Cardinality(goal_words)>>
        ELSE <<0, 1>>

\* a > b on scores
ScoreGreater(a, b) == a[1] * b[2] > b[1] * a[2]

ScorePositive(a) == a[1] > 0

\* f"{score:.2f}": the score in hundredths, rounded half to even
Format2f(score) ==
    LET q == (100 * score[1]) \div score[2]
        r2 == 2 * ((100 * score[1]) % score[2])
    IN  IF r2 > score[2] \/ (r2 = score[2] /\ q % 2 = 1) THEN q + 1 ELSE q

\* the loop without the relevance test
RECURSIVE ScoreChunks_unfiltered(_, _)
ScoreChunks_unfiltered(sentences, goal) ==
    IF sentences = <<>> THEN <<>>
    ELSE LET sentence == Head(sentences)
             score == calculate_relevance_score(sentence, goal)
             rest == ScoreChunks_unfiltered(Tail(sentences), goal)
         IN  IF ~is_filler_sentence(sentence)
             THEN <<<<sentence, score>>>> \o rest
             ELSE rest

\* the loop with the test  score > 0.5
RECURSIVE ScoreChunks_majority(_, _)
ScoreChunks_majority(sentences, goal) ==
    IF sentences = <<>> THEN <<>>
    ELSE LET sentence == Head(sentences)
             score == calculate_relevance_score(sentence, goal)
             rest == ScoreChunks_majority(Tail(sentences), goal)
         IN  IF ~is_filler_sentence(sentence) /\ 2 * score[1] > score[2]
             THEN <<<<sentence, score>>>> \o rest
             ELSE rest

\* the loop that keeps the non-filler sentences of positive score
RECURSIVE ScoreChunks(_, _)
ScoreChunks(sentences, goal) ==
    IF sentences = <<>> THEN <<>>
    ELSE LET sentence == Head(sentences)
             score == calculate_relevance_score(sentence, goal)
             rest == ScoreChunks(Tail(sentences), goal)
         IN  IF ~is_filler_sentence(sentence) /\ ScorePositive(score)
             THEN <<<<sentence, score>>>> \o rest
             ELSE rest

\* an ascending sort read backwards: entries of equal score swap places
RECURSIVE InsertByScore_unstable(_, _)
InsertByScore_unstable(sorted, x) ==
    IF sorted = <<>> THEN <<x>>
    ELSE IF ~ScoreGreater(Head(sorted)[2], x[2])
         THEN <<x>> \o sorted
         ELSE <<Head(sorted)>> \o InsertByScore_unstable(Tail(sorted), x)

\* list.sort(key=score, reverse=True): stable, so an entry goes after every
\* entry whose score is not smaller
RECURSIVE InsertByScore(_, _)
InsertByScore(sorted, x) ==
    IF sorted = <<>> THEN <<x>>
    ELSE IF ScoreGreater(x[2], Head(sorted)[2])
         THEN <<x>> \o sorted
         ELSE <<Head(sorted)>> \o InsertByScore(Tail(sorted), x)

RECURSIVE SortByScore(_)
SortByScore(xs) ==
    IF xs = <<>> THEN <<>>
    ELSE InsertByScore(SortByScore(SubSeq(xs, 1, Len(xs) - 1)), xs[Len(xs)])

Raised(error) == [status |-> "error", error |-> error]

Returned(body) == [status |-> "ok", body |-> body]

\* a handler that rejects an empty text or goal instead of answering it
trim_context_strict(arguments) ==
    LET text == Get(arguments, "text", StrVal(<<>>))
        goal == Get(arguments, "goal", StrVal(<<>>))
        max_chunks == ToInt(Get(arguments, "max_chunks", IntVal(5)))
    IN  IF ~max_chunks.ok THEN Raised(max_chunks.error)
        ELSE IF ~Truthy(text) \/ ~Truthy(goal)
        THEN Raised("ValueError")
        ELSE LET sentences == split_into_sentences(text.s)
                 chunks_with_scores == SortByScore(ScoreChunks(sentences, goal.s))
                 top_chunks == SliceTo(chunks_with_scores, max_chunks.n)
                 selected_chunks ==
                     [k \in 1..Len(top_chunks) |->
                         [text |-> top_chunks[k][1],
                          reason |-> Format2f(top_chunks[k][2])]]
             IN  Returned([selected_chunks |-> selected_chunks])

trim_context(arguments) ==
    LET text == Get(arguments, "text", StrVal(<<>>))
        goal == Get(arguments, "goal", StrVal(<<>>))
        max_chunks == ToInt(Get(arguments, "max_chunks", IntVal(5)))
    IN  IF ~max_chunks.ok THEN Raised(max_chunks.error)
        ELSE IF ~Truthy(text) \/ ~Truthy(goal)
        THEN Returned([selected_chunks |-> <<>>])
        ELSE LET sentences == split_into_sentences(text.s)
                 chunks_with_scores == SortByScore(ScoreChunks(sentences, goal.s))
                 top_chunks == SliceTo(chunks_with_scores, max_chunks.n)
                 selected_chunks ==
                     [k \in 1..Len(top_chunks) |->
                         [text |-> top_chunks[k][1],
                          reason |-> Format2f(top_chunks[k][2])]]
             IN  Returned([selected_chunks |-> selected_chunks])


(***************************************************************************)
(* extract_outcomes and its helpers.                                       *)
(***************************************************************************)

\* [^.!?\n]
NotTerminator == NotCharSet({".", "!", "?", "\n"})

\* [^.\n]
NotDotNewline == NotCharSet({".", "\n"})

\* [^.!?\n]+[.!?]
UpToTerminator == Cat(<<Plus(NotTerminator), CharSet(Terminators)>>)

\* [^.\n]+\.?
UpToDot == Cat(<<Plus(NotDotNewline), Opt(Lit("."))>>)

decision_patterns ==
    << Cat(<<Opt(Words(<<"we", "they", "the team", "I">>)), Star(Space),
             Words(<<"decided", "chose", "selected", "agreed", "concluded">>),
             Plus(Space), Opt(Cat(<<Lit("to"), Plus(Space)>>)),
             UpToTerminator>>),
       Cat(<<Words(<<"decision", "choice">>), Lit(":"), Star(Space),
             UpToTerminator>>),
       Cat(<<Words(<<"will", "shall">>), Plus(Space),
             Words(<<"go with", "use", "implement", "adopt">>), Plus(Space),
             UpToTerminator>>) >>

action_patterns ==
    << Cat(<<Words(<<"TODO", "Action", "Task", "Action item">>), Lit(":"),
             Star(Space), UpToDot>>),
       Cat(<<Words(<<"will", "shall", "should", "must", "need to">>),
             Plus(Space), UpToTerminator>>),
       Cat(<<Lit("["), Words(<<"TODO", "ACTION">>), Lit("]"), Star(Space),
             UpToDot>>),
       Cat(<<Alt(<<Caret, Lit("\n")>>), Star(Space), CharSet({"-", "*"}),
             Star(Space), Plus(NotDotNewline),
             Alt(<<Lit("will"), Lit("should"),
                   Cat(<<Lit("need"), Opt(Lit("s")), Lit(" to")>>),
                   Lit("must")>>),
             Plus(NotDotNewline), Opt(Lit("."))>>) >>

\* [^.!?\n]*\?
question_pattern == Cat(<<Star(NotTerminator), Lit("?")>>)

\* ^\s*[-*...]\s* : the class holds '-', '*' and the three characters the
\* source line spells, not the bullet itself
marker_pattern ==
    Cat(<<Caret, Star(Space), CharSet({"-", "*", A_CIRC, EURO, CENT}),
          Star(Space)>>)

\* re.sub(r, '', t): t without the matches of r
RECURSIVE Concat(_)
Concat(xs) == IF xs = <<>> THEN <<>> ELSE Head(xs) \o Concat(Tail(xs))

SubEmpty(r, t, f) == Concat(Pieces(t, FindIter(r, t, 0, f), 1, 0))

\* the inner loop with  items.insert(0, item)  for  items.append(item)
RECURSIVE AppendMatches_prepend(_, _, _, _)
AppendMatches_prepend(items, text, ms, k) ==
    IF k > Len(ms) THEN items
    ELSE LET item == Strip(Group0(text, ms[k]))
         IN  AppendMatches_prepend(IF item # <<>> /\ ~Contains(items, item)
                                   THEN <<item>> \o items ELSE items,
                                   text, ms, k + 1)

\* the inner loop of extract_decisions / extract_action_items: the stripped
\* matches ms[k..] of one pattern appended to items unless empty or present
RECURSIVE AppendMatches(_, _, _, _)
AppendMatches(items, text, ms, k) ==
    IF k > Len(ms) THEN items
    ELSE LET item == Strip(Group0(text, ms[k]))
         IN  AppendMatches(IF item # <<>> /\ ~Contains(items, item)
                           THEN Append(items, item) ELSE items,
                           text, ms, k + 1)

\* the outer loop over the patterns, in their listed order
RECURSIVE ApplyPatterns(_, _, _, _)
ApplyPatterns(items, patterns, k, text) ==
    IF k > Len(patterns) THEN items
    ELSE ApplyPatterns(
             AppendMatches(items, text, FindIter(patterns[k], text, 0, IM), 1),
             patterns, k + 1, text)

extract_decisions(text) == ApplyPatterns(<<>>, decision_patterns, 1, text)

extract_action_items(text) == ApplyPatterns(<<>>, action_patterns, 1, text)

\* the loop with the membership test made on the question before clean-up
RECURSIVE AppendQuestions_rawcheck(_, _, _, _)
AppendQuestions_rawcheck(questions, text, ms, k) ==
    IF k > Len(ms) THEN questions
    ELSE LET question == Strip(Group0(text, ms[k]))
             cleaned == SubEmpty(marker_pattern, question, NoFlags)
         IN  AppendQuestions_rawcheck(
                 IF question # <<>> /\ Len(question) > 5
                    /\ ~Contains(questions, question)
                 THEN Append(questions, cleaned) ELSE questions,
                 text, ms, k + 1)

\* the loop of extract_questions over the matches ms[k..]
RECURSIVE AppendQuestions(_, _, _, _)
AppendQuestions(questions, text, ms, k) ==
    IF k > Len(ms) THEN questions
    ELSE LET question == Strip(Group0(text, ms[k]))
             cleaned == SubEmpty(marker_pattern, question, NoFlags)
         IN  AppendQuestions(
                 IF question # <<>> /\ Len(question) > 5
                    /\ ~Contains(questions, cleaned)
                 THEN Append(questions, cleaned) ELSE questions,
                 text, ms, k + 1)

extract_questions(text) ==
    AppendQuestions(<<>>, text,
                    FindIter(question_pattern, text, 0,
                             [ignorecase |-> FALSE, multiline |-> TRUE]), 1)

extract_outcomes(arguments) ==
    LET text == Get(arguments, "text", StrVal(<<>>))
    IN  IF ~Truthy(text)
        THEN Returned([decisions |-> <<>>, action_items |-> <<>>,
                       open_questions |-> <<>>])
        ELSE Returned([decisions |-> extract_decisions(text.s),
                       action_items |-> extract_action_items(text.s),
                       open_questions |-> extract_questions(text.s)])

\* call_tool: dispatch on the tool name; an exception is logged and re-raised
call_tool(name, arguments) ==
    IF name = "extract_outcomes" THEN extract_outcomes(arguments)
    ELSE IF name = "trim_context" THEN trim_context(arguments)
    ELSE Raised("ValueError")


(***************************************************************************)
(* The requests the model sends.                                           *)
(***************************************************************************)

\* the longest text of a trim_context request, in pieces of TrimPieces
MaxTrimPieces == 3

\* the longest text of an extract_outcomes request, in pieces of OutcomePieces
MaxClauses == 2

\* the integers sent as max_chunks are -MaxNegative..MaxChunks
MaxNegative == 1

MaxChunks == 1

\* the concatenations of at most n pieces
RECURSIVE TextsOf(_, _)
TextsOf(pieces, n) ==
    IF n = 0 THEN {<<>>}
    ELSE LET shorter == TextsOf(pieces, n - 1)
         IN  shorter \cup {t \o p : t \in shorter, p \in pieces}

TrimPieces ==
    { Str("a x. "), Str("B x!\n"), Str("Hi a y. x y? a b x. ") }

OutcomePieces ==
    { Str("We chose x. "), Str("will use x. "), Str("TODO: y\n"),
      Str("- a will b?\n"), Str("* a will b?"),
      Str("ok? ") \o <<BULLET>> \o Str(" why so?") }

TextArgs(pieces, n) == {Absent} \cup {StrVal(t) : t \in TextsOf(pieces, n)}

GoalArgs ==
    { Absent, StrVal(<<>>), StrVal(Str(" ")), StrVal(Str("a b  A")) }

MaxChunksArgs ==
    {Absent, None} \cup {IntVal(n) : n \in (-MaxNegative)..MaxChunks}
    \cup {FloatVal(15), StrVal(Str(" 2")), StrVal(Str("abc"))}

NoRequest == [name |-> "none"]

NoResponse == [status |-> "none"]

Init ==
    /\ request = NoRequest
    /\ response = NoResponse

\* one request through call_tool, taken when the server is waiting for one
Call(name, arguments) ==
    /\ request = NoRequest
    /\ request' = [name |-> name, arguments |-> arguments]
    /\ response' = call_tool(name, arguments)

CallTrimContext ==
    \E text \in TextArgs(TrimPieces, MaxTrimPieces), goal \in GoalArgs,
       max_chunks \in MaxChunksArgs :
        Call("trim_context",
             [text |-> text, goal |-> goal, max_chunks |-> max_chunks])

CallExtractOutcomes ==
    \E text \in TextArgs(OutcomePieces, MaxClauses) :
        Call("extract_outcomes", [text |-> text])

CallUnknownTool ==
    \E text \in TextArgs(OutcomePieces, 1) :
        Call("summarize", [text |-> text])

\* the serving loop writes the response (or the error) to the client and
\* waits for the next request
Deliver ==
    /\ request # NoRequest
    /\ request' = NoRequest
    /\ response' = NoResponse

Next ==
    \/ CallTrimContext
    \/ CallExtractOutcomes
    \/ CallUnknownTool
    \/ Deliver

Spec == Init /\ [][Next]_vars


(***************************************************************************)
(* What the properties below speak about.                                  *)
(***************************************************************************)

IsTrim == request # NoRequest /\ request.name = "trim_context"

IsExtract == request # NoRequest /\ request.name = "extract_outcomes"

ReturnedOk == response.status = "ok"

ArgText == Get(request.arguments, "text", StrVal(<<>>))

ArgGoal == Get(request.arguments, "goal", StrVal(<<>>))

\* text and goal are both present and non-empty
HasTextAndGoal == IsTrim /\ Truthy(ArgText) /\ Truthy(ArgGoal)

\* trim_context went through its whole pipeline and returned
Trimmed == HasTextAndGoal /\ ReturnedOk

Selected == response.body.selected_chunks

SelectedTexts == [k \in 1..Len(Selected) |-> Selected[k].text]

\* the max_chunks the request was sent with has no reading as a number:
\* None, or a string without a single digit
NonNumeric(v) ==
    \/ v.t = "none"
    \/ v.t = "str" /\ \A k \in 1..Len(v.s) : ~IsDigit(v.s[k])

\* the request's max_chunks is absent or int() accepts it
HasMaxChunks ==
    request.arguments.max_chunks = Absent
    \/ ToInt(request.arguments.max_chunks).ok

\* the integer the request's max_chunks stands for (5 when absent)
EffectiveMaxChunks ==
    IF request.arguments.max_chunks = Absent THEN 5
    ELSE ToInt(request.arguments.max_chunks).n

\* the tokens of s, said without the splitting loop: the lower-cased maximal
\* stretches of s that hold no white space
Tokens(s) ==
    LET l == Lower(s)
        starts == {i \in 1..Len(l) : /\ l[i] \notin Whitespace
                                     /\ (i = 1 \/ l[i - 1] \in Whitespace)}
        ends == {j \in 1..Len(l) : /\ l[j] \notin Whitespace
                                   /\ (j = Len(l) \/ l[j + 1] \in Whitespace)}
        EndOf(i) == CHOOSE j \in ends : j >= i /\ \A m \in ends : m >= i => j <= m
    IN  {SubSeq(l, i, EndOf(i)) : i \in starts}

Sentences == split_into_sentences(ArgText.s)

\* the sentences that are not filler and hold one of the goal tokens G
SurvivorsOf(sentences, G) ==
    {k \in 1..Len(sentences) : /\ ~is_filler_sentence(sentences[k])
                               /\ Tokens(sentences[k]) \cap G # {}}

Survivors == SurvivorsOf(Sentences, Tokens(ArgGoal.s))

ScoreOf(sentence) == calculate_relevance_score(sentence, ArgGoal.s)

SameScore(a, b) == a[1] * b[2] = b[1] * a[2]

\* how often x is in xs
Count(xs, x) == Cardinality({k \in 1..Len(xs) : xs[k] = x})

\* 1, 2, ..., Len(xs) and the entries of xs at the places idx
Indices(xs) == [k \in 1..Len(xs) |-> k]

Pick(xs, idx) == [m \in 1..Len(idx) |-> xs[idx[m]]]

IsPrefix(a, b) == Len(a) <= Len(b) /\ SubSeq(b, 1, Len(a)) = a

NoDuplicates(xs) == \A i, j \in 1..Len(xs) : xs[i] = xs[j] => i = j


(***************************************************************************)
(* Properties.                                                             *)
(***************************************************************************)

\* C1 (as stated): for every integer max_chunks, negative ones included,
\* trim_context returns and the list it returns has at most max_chunks
\* entries.
C1_Original ==
    (IsTrim /\ request.arguments.max_chunks # Absent
        /\ request.arguments.max_chunks.t = "int")
    => (ReturnedOk /\ Len(Selected) <= request.arguments.max_chunks.n)

\* C1 (amended): whenever the max_chunks of the request stands for an
\* integer n >= 0 (5 when absent), the returned list has at most n entries.
C1_BoundedOutput ==
    (IsTrim /\ HasMaxChunks /\ EffectiveMaxChunks >= 0)
    => (ReturnedOk /\ Len(Selected) <= EffectiveMaxChunks)

\* more sentences survive than max_chunks allows, and the list is cut to it
C1_Witness ==
    /\ Trimmed /\ request.arguments.max_chunks # Absent
    /\ request.arguments.max_chunks.t = "int"
    /\ EffectiveMaxChunks >= 1
    /\ Len(Selected) = EffectiveMaxChunks
    /\ Cardinality(Survivors) > EffectiveMaxChunks

\* C2: with non-empty text and goal and max_chunks <= 0, the returned list
\* is empty, however many sentences survive.
C2_NonPositiveYieldsEmpty ==
    (HasTextAndGoal /\ HasMaxChunks /\ EffectiveMaxChunks <= 0)
    => (ReturnedOk /\ Selected = <<>>)

\* C3 (as stated): an absent or empty text or goal yields the empty result
\* and no error for every max_chunks, malformed ones included; an absent or
\* empty text yields three empty lists from extract_outcomes.
C3_Original ==
    /\ (IsTrim /\ (~Truthy(ArgText) \/ ~Truthy(ArgGoal)))
       => response = Returned([selected_chunks |-> <<>>])
    /\ (IsExtract /\ ~Truthy(ArgText))
       => response = Returned([decisions |-> <<>>, action_items |-> <<>>,
                               open_questions |-> <<>>])

\* C3 (amended): an absent or empty text or goal yields the empty result and
\* no error whenever max_chunks is absent or a value int() accepts; with a
\* max_chunks int() rejects the call raises, empty text or not.  An absent or
\* empty text yields three empty lists from extract_outcomes.
C3_EmptyInput ==
    /\ (IsTrim /\ (~Truthy(ArgText) \/ ~Truthy(ArgGoal)) /\ HasMaxChunks)
       => response = Returned([selected_chunks |-> <<>>])
    /\ (IsTrim /\ (~Truthy(ArgText) \/ ~Truthy(ArgGoal)) /\ ~HasMaxChunks)
       => response.status = "error"
    /\ (IsExtract /\ ~Truthy(ArgText))
       => response = Returned([decisions |-> <<>>, action_items |-> <<>>,
                               open_questions |-> <<>>])

\* a text with sentences but an empty goal, answered with the empty result
C3_Witness ==
    /\ IsTrim /\ Truthy(ArgText) /\ Len(Sentences) >= 2
    /\ request.arguments.goal = StrVal(<<>>)
    /\ HasMaxChunks
    /\ response = Returned([selected_chunks |-> <<>>])

\* C4: a max_chunks that is supplied and not numeric makes trim_context
\* raise; the response then carries no result at all, neither one computed
\* with the default 5 nor a partial one.
C4_MalformedMaxChunksRaises ==
    (IsTrim /\ request.arguments.max_chunks # Absent
        /\ NonNumeric(request.arguments.max_chunks))
    => (response.status = "error" /\ "body" \notin DOMAIN response)

\* a request whose text would yield chunks, sent with max_chunks "abc"
C4_Witness ==
    /\ HasTextAndGoal
    /\ request.arguments.max_chunks = StrVal(Str("abc"))
    /\ Survivors # {}
    /\ response = Raised("ValueError")

\* C5: the returned chunks are in non-increasing order of score, and the
\* returned chunks of any one score are the first ones, in text order, of
\* the surviving sentences of that score.
C5_SortedStable ==
    Trimmed =>
        LET sentences == Sentences
            texts == SelectedTexts
            kept == [k \in 1..Len(sentences) |-> ~is_filler_sentence(sentences[k])]
            sentenceScore == [k \in 1..Len(sentences) |-> ScoreOf(sentences[k])]
            score == [i \in 1..Len(texts) |-> ScoreOf(texts[i])]
        IN  /\ \A i, j \in 1..Len(texts) :
                   i < j => ~ScoreGreater(score[j], score[i])
            /\ \A i \in 1..Len(texts) :
                   LET Tied(j) == SameScore(score[j], score[i])
                       KeptTied(k) == kept[k] /\ SameScore(sentenceScore[k], score[i])
                   IN  IsPrefix(Pick(texts, SelectSeq(Indices(texts), Tied)),
                                Pick(sentences,
                                     SelectSeq(Indices(sentences), KeptTied)))

\* the best sentence comes last in the text and first in the result, ahead
\* of two different sentences of equal score that keep their text order
C5_Witness ==
    /\ Trimmed /\ Len(Selected) = 3
    /\ LET sentences == Sentences
       IN  /\ Len(sentences) = 5
           /\ SelectedTexts = <<sentences[5], sentences[1], sentences[2]>>
           /\ sentences[1] # sentences[2]
           /\ SameScore(ScoreOf(sentences[1]), ScoreOf(sentences[2]))
           /\ ScoreGreater(ScoreOf(sentences[5]), ScoreOf(sentences[1]))

\* C6: every returned chunk is a sentence of the text that is not filler and
\* shares a token with the goal, and there are no more chunks than such
\* sentences.
C6_OnlyRelevantSentences ==
    Trimmed =>
        LET sentences == Sentences
            survivors == Survivors
            texts == SelectedTexts
        IN  /\ \A i \in 1..Len(texts) :
                   \E k \in survivors : sentences[k] = texts[i]
            /\ \A x \in ToSet(texts) :
                   Count(texts, x)
                       <= Cardinality({k \in survivors : sentences[k] = x})
            /\ Len(texts) <= Cardinality(survivors)

\* a text with a filler sentence that shares a goal token, a sentence that
\* shares none and one survivor, which alone is returned; and a text whose
\* only sentence shares no goal token, answered with the empty list
C6_Witness ==
    /\ Trimmed /\ Len(Selected) = 1
    /\ EffectiveMaxChunks >= 2
    /\ LET sentences == Sentences
           G == Tokens(ArgGoal.s)
       IN  /\ Len(sentences) = 3
           /\ Cardinality(SurvivorsOf(sentences, G)) = 1
           /\ \E k \in 1..3 : /\ is_filler_sentence(sentences[k])
                              /\ Tokens(sentences[k]) \cap G # {}
           /\ \E k \in 1..3 : /\ ~is_filler_sentence(sentences[k])
                              /\ Tokens(sentences[k]) \cap G = {}

C8_ScoreIsOverlapFraction ==
    (IsTrim /\ ArgText.t = "str" /\ ArgGoal.t = "str") =>
        LET sentences == Sentences
            G == Tokens(ArgGoal.s)
        IN  \A k \in 1..Len(sentences) :
                LET score == ScoreOf(sentences[k])
                    S == Tokens(sentences[k])
                IN  /\ score[2] > 0
                    /\ 0 <= score[1] /\ score[1] <= score[2]
                    /\ G # {} => score[1] * Cardinality(G)
                                     = Cardinality(G \cap S) * score[2]
                    /\ (G = {} \/ G \cap S = {}) => score[1] = 0
                    /\ G # {} => ((score[1] = score[2]) <=> (G \subseteq S))

\* one text holding a sentence of score 1, one of score 1/2 that shares a
\* token only after lower-casing, and one of score 0
C8_Witness ==
    /\ IsTrim /\ ArgText.t = "str" /\ ArgGoal.t = "str"
    /\ LET sentences == Sentences
           G == Tokens(ArgGoal.s)
       IN  /\ Cardinality(G) = 2
           /\ \E k \in 1..Len(sentences) : ScoreOf(sentences[k]) = <<2, 2>>
           /\ \E k \in 1..Len(sentences) :
                  /\ ScoreOf(sentences[k]) = <<1, 2>>
                  /\ ToSet(Split(sentences[k])) \cap G = {}
           /\ \E k \in 1..Len(sentences) : ScoreOf(sentences[k]) = <<0, 2>>

\* C9: no string is twice in decisions, in action_items or in
\* open_questions; open_questions holds the questions as cleaned of their
\* list marker.
C9_NoDuplicates ==
    (IsExtract /\ ReturnedOk) =>
        /\ NoDuplicates(response.body.decisions)
        /\ NoDuplicates(response.body.action_items)
        /\ NoDuplicates(response.body.open_questions)

\* a text asking one question behind two different list markers; it is
\* stored once, and so is the action item matched in both lines
C9_Witness ==
    /\ IsExtract /\ ReturnedOk
    /\ ArgText.s = Str("- a will b?\n* a will b?")
    /\ response.body.open_questions = <<Str("a will b?")>>
    /\ Len(response.body.action_items) >= 2


\* the list-marker glyphs: dash, asterisk and the bullet character
MarkerGlyphs == {"-", "*", BULLET}

\* q without a leading list-marker glyph and the white space after it
WithoutMarker(q) ==
    IF q # <<>> /\ q[1] \in MarkerGlyphs THEN LStrip(Tail(q)) ELSE q

\* characters i..j of t are a run of non-terminator characters ending in
\* '?' that starts the text or follows a terminator or the previous run
IsQuestionRun(t, i, j) ==
    /\ 1 <= i /\ i <= j /\ j <= Len(t)
    /\ t[j] = "?"
    /\ \A k \in i..(j - 1) : t[k] \notin (Terminators \cup {"\n"})
    /\ (i = 1 \/ t[i - 1] \in (Terminators \cup {"\n"}))

\* C11: every entry of open_questions is such a run, trimmed, of trimmed
\* length above 5, stored without its leading list-marker glyph ('-', '*'
\* or the bullet character); a text without '?' has no entry.
C11_QuestionsAreCleanedRuns ==
    (IsExtract /\ ReturnedOk) =>
        LET t == ArgText.s
            questions == response.body.open_questions
        IN  \A n \in 1..Len(questions) :
                \E i, j \in 1..Len(t) :
                    /\ IsQuestionRun(t, i, j)
                    /\ Len(Strip(SubSeq(t, i, j))) > 5
                    /\ questions[n] = WithoutMarker(Strip(SubSeq(t, i, j)))


\* every trimmed match of the rules of one category: the rules in their
\* listed order, the matches of each rule from left to right
Matched(patterns, text) ==
    Concat([k \in 1..Len(patterns) |->
               LET ms == FindIter(patterns[k], text, 0, IM)
               IN  [n \in 1..Len(ms) |-> Strip(Group0(text, ms[n]))]])

\* every question of the text as it is stored, from left to right
MatchedQuestions(text) ==
    LET ms == FindIter(question_pattern, text, 0,
                       [ignorecase |-> FALSE, multiline |-> TRUE])
        runs == [n \in 1..Len(ms) |-> Strip(Group0(text, ms[n]))]
        Long(q) == Len(q) > 5
        kept == SelectSeq(runs, Long)
    IN  [n \in 1..Len(kept) |-> SubEmpty(marker_pattern, kept[n], NoFlags)]

\* the place of the first x in xs
FirstIndex(xs, x) ==
    CHOOSE i \in 1..Len(xs) : xs[i] = x /\ \A j \in 1..(i - 1) : xs[j] # x

\* list holds every non-empty string of matched once, in the order of the
\* first place each has in matched
InFirstMatchOrder(list, matched) ==
    /\ NoDuplicates(list)
    /\ ToSet(list) = ToSet(matched) \ {<<>>}
    /\ \A i, j \in 1..Len(list) :
           i < j => FirstIndex(matched, list[i]) < FirstIndex(matched, list[j])

\* C12: each category list holds the strings its rules match, every string
\* once, at the place of its first match: rules in their listed order, the
\* matches of a rule from left to right; a later match of a string that is
\* already there neither moves nor replaces it.
C12_FirstMatchOrder ==
    (IsExtract /\ ReturnedOk /\ Truthy(ArgText)) =>
        /\ InFirstMatchOrder(response.body.decisions,
                             Matched(decision_patterns, ArgText.s))
        /\ InFirstMatchOrder(response.body.action_items,
                             Matched(action_patterns, ArgText.s))
        /\ InFirstMatchOrder(response.body.open_questions,
                             MatchedQuestions(ArgText.s))

\* the second rule matches one string twice and the fourth rule two more:
\* the string stands once, first, ahead of the later rule's matches
C12_Witness ==
    /\ IsExtract /\ ReturnedOk /\ Truthy(ArgText)
    /\ LET matched == Matched(action_patterns, ArgText.s)
           items == response.body.action_items
       IN  /\ Len(matched) = 4 /\ Len(items) = 3
           /\ matched[1] = matched[2]
           /\ items = <<matched[1], matched[3], matched[4]>>
           /\ Ends(action_patterns[2], ArgText.s, 0, IM) = <<>>
           /\ Ends(action_patterns[4], ArgText.s, 0, IM) # <<>>

=============================================================================
